---- MODULE Spec2Model ----
(***************************************************************************)
(* User-service of ASP-MicroService-GO: the POST /users registration       *)
(* handler and the GET /users listing handler, the Database interface      *)
(* they call, and its MongoDB and MockDB implementations.                  *)
(*                                                                         *)
(* The repository holds two revisions of the registration handler:         *)
(*   - the guarded handler (cmd/controllers, exercised by                  *)
(*     user_controller_test.go): validation, email lookup, decoding of     *)
(*     the request's company, insert;                                      *)
(*   - the provisioning handler (with CreateCompany): validation, company  *)
(*     resolution by invitation flag, insert.                              *)
(* Spec runs the first, SpecProvision the second.                          *)
(***************************************************************************)
EXTENDS Integers, Sequences, FiniteSets, TLC

(***************************************************************************)
(* Bounds                                                                  *)
(***************************************************************************)
\* number of register attempts handled in one behaviour
MaxAttempts == 2
\* number of register attempts handled while single records are looked up
MaxLookupAttempts == 1

(***************************************************************************)
(* Strings.  Identifier tokens are sequences of characters, so that the    *)
(* codec works on their length and on their digits; the other fields are   *)
(* opaque strings.                                                         *)
(***************************************************************************)
HexLower == <<"0","1","2","3","4","5","6","7","8","9","a","b","c","d","e","f">>
HexUpper == <<"0","1","2","3","4","5","6","7","8","9","A","B","C","D","E","F">>

IsHexChar(c) == \E k \in 1..Len(HexLower) : HexLower[k] = c \/ HexUpper[k] = c

\* value of one hexadecimal digit, either case (encoding/hex fromHexChar)
HexVal(c) == (CHOOSE k \in 1..Len(HexLower) : HexLower[k] = c \/ HexUpper[k] = c) - 1

\* primitive.NilObjectID: twelve zero bytes
NilObjectID == <<0, 0, 0, 0, 0, 0, 0, 0, 0, 0, 0, 0>>

ObjectIDLen == Len(NilObjectID)

\* primitive.ObjectIDFromHex: exactly 2*12 hexadecimal digits of either
\* case, else an error and the nil identifier
ObjectIDFromHex(s) ==
  IF Len(s) # 2 * ObjectIDLen \/ (\E k \in 1..Len(s) : ~IsHexChar(s[k]))
  THEN [id |-> NilObjectID, err |-> TRUE]
  ELSE [id |-> [k \in 1..ObjectIDLen |-> 16 * HexVal(s[2*k - 1]) + HexVal(s[2*k])],
        err |-> FALSE]

\* ObjectID.Hex: the lower-case hexadecimal text of the twelve bytes
Hex(id) ==
  [k \in 1..(2 * Len(id)) |->
     IF k % 2 = 1 THEN HexLower[(id[(k + 1) \div 2] \div 16) + 1]
                  ELSE HexLower[(id[k \div 2] % 16) + 1]]


(***************************************************************************)
(* Request values.  Tokens are the ones the tests use.                     *)
(***************************************************************************)
\* "649060d540e3b169621e9629"
CompanyHex == <<"6","4","9","0","6","0","d","5","4","0","e","3","b","1","6","9","6","2","1","e","9","6","2","9">>
\* the same identifier written with upper-case digits
CompanyHexUpper == <<"6","4","9","0","6","0","D","5","4","0","E","3","B","1","6","9","6","2","1","E","9","6","2","9">>
\* "6477c1b6f7122e3b1d204917", the id the company service answers with
MintedHex == <<"6","4","7","7","c","1","b","6","f","7","1","2","2","e","3","b","1","d","2","0","4","9","1","7">>
\* "Test Company": a company name, not an identifier
CompanyName == <<"T","e","s","t"," ","C","o","m","p","a","n","y">>
\* 24 characters, one of them not a hexadecimal digit
BadHex == <<"6","4","9","0","6","z","d","5","4","0","e","3","b","1","6","9","6","2","1","e","9","6","2","9">>
EmptyToken == << >>

Emails == {"test@example.com", "jane@example.com"}
CompanyTokens == {CompanyHex, CompanyName}

\* models.User, the body of POST /users and of its 201 answer
ZeroUser ==
  [Id |-> EmptyToken, Name |-> "", Password |-> "", Email |-> "", Role |-> "",
   Company |-> EmptyToken, Invitation |-> FALSE]

\* models.UserWithCompanyAsObject, the stored document
ZeroUserWithCompany ==
  [Id |-> NilObjectID, Name |-> "", Password |-> "", Email |-> "", Role |-> "",
   Company |-> NilObjectID]

\* the fields tagged validate:"required", in struct order
RequiredFields == <<"Name", "Password", "Email", "Role", "Company">>

\* bodies that bind and have every required field
ValidUsers ==
  { [ZeroUser EXCEPT !.Name = "Test User", !.Password = "password", !.Email = e,
                     !.Role = "admin", !.Company = c, !.Invitation = inv]
      : e \in Emails, c \in CompanyTokens, inv \in BOOLEAN }

\* u with the fields of S left out of the JSON body
Blank(u, S) ==
  [u EXCEPT !.Name = IF "Name" \in S THEN "" ELSE @,
            !.Password = IF "Password" \in S THEN "" ELSE @,
            !.Email = IF "Email" \in S THEN "" ELSE @,
            !.Role = IF "Role" \in S THEN "" ELSE @,
            !.Company = IF "Company" \in S THEN EmptyToken ELSE @]

BaseUser ==
  [ZeroUser EXCEPT !.Name = "Test User", !.Password = "password",
                   !.Email = "test@example.com", !.Role = "admin",
                   !.Company = CompanyHex]

\* bodies that bind but miss one, two or all of the required fields
IncompleteUsers ==
  { Blank(BaseUser, S) :
      S \in { T \in SUBSET {"Name", "Password", "Email", "Role", "Company"} :
                T # {} /\ (Cardinality(T) <= 2 \/ Cardinality(T) = Len(RequiredFields)) } }

\* the bodies a client may post; bodyOk = FALSE is a body that is not JSON
Bodies ==
  { [bodyOk |-> TRUE, user |-> u] : u \in ValidUsers \cup IncompleteUsers }
    \cup { [bodyOk |-> FALSE, user |-> ZeroUser] }

\* the bodies posted while the listing is queried: two companies, two emails
QueryBodies ==
  { [bodyOk |-> TRUE,
     user |-> [BaseUser EXCEPT !.Email = ec[1], !.Company = ec[2]]]
      : ec \in { <<"test@example.com", CompanyHex>>, <<"jane@example.com", MintedHex>> } }


(***************************************************************************)
(* HTTP answers                                                            *)
(***************************************************************************)
StatusOK == 200
StatusCreated == 201
StatusBadRequest == 400
StatusInternalServerError == 500

\* responses.UserResponse as written by c.JSON.  kind tells what Data holds:
\* "user" (Data["user"]), "users" (Data["users"]), "data" (Data["data"], an
\* error text), "nil" (Data: nil), "none" (no body was written)
NoResponse ==
  [status |-> 0, message |-> "", kind |-> "none", user |-> ZeroUser, data |-> << >>]

UserAnswer(status, message, u) ==
  [status |-> status, message |-> message, kind |-> "user", user |-> u, data |-> << >>]

ErrorAnswer(status, message, text) ==
  [status |-> status, message |-> message, kind |-> "data", user |-> ZeroUser, data |-> text]

\* gin writes only the status line: c.BindJSON aborts with 400, and the
\* Recovery middleware of gin.Default() answers a panic with 500
BareAnswer(status) ==
  [status |-> status, message |-> "", kind |-> "none", user |-> ZeroUser, data |-> << >>]

(***************************************************************************)
(* State                                                                   *)
(***************************************************************************)
VARIABLES
  DB,          \* the implementation behind the Database interface
  users,       \* the "users" collection, in insertion order
  oidCounter,  \* number of identifiers the collection has assigned
  att,         \* the register attempts, one record per POST /users
  lastGet,     \* the answer to GET /users, when the latest step was one
  companies,   \* names the company service has created companies for
  overlapped   \* history: some attempt started while another was in flight

vars == <<DB, users, oidCounter, att, lastGet, companies, overlapped>>

Attempts == 1..MaxAttempts

\* a *models.UserWithCompanyAsObject: nil, or a pointer to rec
NilUser == [nil |-> TRUE, rec |-> ZeroUserWithCompany]
PtrTo(rec) == [nil |-> FALSE, rec |-> rec]

\* the company service was not called
NoCompanyResponse ==
  [doErr |-> FALSE, readable |-> FALSE, json |-> FALSE, error |-> FALSE,
   message |-> "none", id |-> "none", idStr |-> EmptyToken, created |-> FALSE]

\* one attempt before its request arrives
IdleAttempt ==
  [pc |-> "idle",
   bodyOk |-> FALSE,
   req |-> ZeroUser,                        \* the body as posted
   user |-> ZeroUser,                       \* var user models.User
   companyIdObject |-> NilObjectID,
   userWithCompany |-> ZeroUserWithCompany, \* the record handed to DB.CreateUser
   resp |-> NoResponse,
   \* history of the calls this attempt made
   nFind |-> 0, nCreate |-> 0, nDo |-> 0,
   found |-> NilUser, findErr |-> FALSE,    \* what DB.FindUserByEmail returned
   findMissed |-> FALSE,                    \* it returned nil though a document matched
   userId |-> NilObjectID, createErr |-> FALSE, \* what DB.CreateUser returned
   doName |-> EmptyToken,                   \* the name posted to the company service
   doResp |-> NoCompanyResponse,            \* what the company service answered
   companyIdStr |-> EmptyToken,             \* what CreateCompany returned
   answers |-> 0,                           \* number of answers written
   \* time: what has passed of ctx's timeout, what each store call needed,
   \* and whether the deadline of ctx ended it
   elapsed |-> 0, findTook |-> 0, createTook |-> 0,
   findAborted |-> FALSE, createAborted |-> FALSE]

InFlight(a) == a.pc \notin {"idle", "done"}

\* the latest step was not a GET
NoGet ==
  [email |-> "", company |-> EmptyToken, status |-> 0, message |-> "", kind |-> "none",
   user |-> NilUser, users |-> << >>, data |-> << >>,
   askedByEmail |-> FALSE, askedAll |-> FALSE, objId |-> NilObjectID,
   \* GET /users/:userId
   userId |-> EmptyToken, askedById |-> FALSE,
   \* history: the decoding reported an error; the store call returned one
   decodeErr |-> FALSE, storeErr |-> FALSE]


(***************************************************************************)
(* The Database interface and its implementations.  A call is atomic at    *)
(* the store; each operator gives the set of outcomes the call may have.   *)
(***************************************************************************)
\* the n-th identifier the collection assigns to a document stored without one
NewObjectID(n) == [k \in 1..ObjectIDLen |-> IF k = ObjectIDLen THEN n ELSE 0]

\* mongo.ErrNoDocuments, and any other driver error (deadline, network)
ErrNoDocuments == <<"mongo: no documents in result">>
ErrDriver == <<"driver error">>

\* MongoDB.CreateUser whose failure leaves the document in the collection
MongoDB_CreateUser_Partial(u) ==
  { [id |-> NewObjectID(oidCounter + 1), err |-> FALSE, text |-> << >>,
     users |-> Append(users, [u EXCEPT !.Id = NewObjectID(oidCounter + 1)]),
     oidCounter |-> oidCounter + 1],
    [id |-> NilObjectID, err |-> TRUE, text |-> ErrDriver,
     users |-> Append(users, [u EXCEPT !.Id = NewObjectID(oidCounter + 1)]),
     oidCounter |-> oidCounter + 1] }

\* MongoDB.CreateUser as a replacement: a document with the same email is
\* replaced by the new one
MongoDB_CreateUser_Replacing(u) ==
  LET new == [u EXCEPT !.Id = NewObjectID(oidCounter + 1)] IN
  { [id |-> NewObjectID(oidCounter + 1), err |-> FALSE, text |-> << >>,
     users |-> Append(SelectSeq(users, LAMBDA d : d.Email # u.Email), new),
     oidCounter |-> oidCounter + 1],
    [id |-> NilObjectID, err |-> TRUE, text |-> ErrDriver,
     users |-> users, oidCounter |-> oidCounter] }

\* MongoDB.CreateUser: InsertOne appends the document under a fresh _id, or
\* fails and stores nothing
MongoDB_CreateUser(u) ==
  { [id |-> NewObjectID(oidCounter + 1), err |-> FALSE, text |-> << >>,
     users |-> Append(users, [u EXCEPT !.Id = NewObjectID(oidCounter + 1)]),
     oidCounter |-> oidCounter + 1],
    [id |-> NilObjectID, err |-> TRUE, text |-> ErrDriver,
     users |-> users, oidCounter |-> oidCounter] }

\* MongoDB.FindUserByEmail with an empty filter: the first document of the
\* collection, whatever its email
MongoDB_FindUserByEmail_AnyDocument(email) ==
  LET hits == users IN
  { [ptr |-> NilUser, err |-> TRUE, text |-> ErrDriver] }
    \cup (IF hits = << >>
          THEN { [ptr |-> NilUser, err |-> TRUE, text |-> ErrNoDocuments] }
          ELSE { [ptr |-> PtrTo(hits[1]), err |-> FALSE, text |-> << >>] })

\* MongoDB.FindUserByEmail: FindOne on {"email": email} decodes the first
\* matching document; no match is reported as an error
MongoDB_FindUserByEmail(email) ==
  LET hits == SelectSeq(users, LAMBDA d : d.Email = email) IN
  { [ptr |-> NilUser, err |-> TRUE, text |-> ErrDriver] }
    \cup (IF hits = << >>
          THEN { [ptr |-> NilUser, err |-> TRUE, text |-> ErrNoDocuments] }
          ELSE { [ptr |-> PtrTo(hits[1]), err |-> FALSE, text |-> << >>] })

\* MongoDB.FindUserByID: FindOne on {"_id": id}; no match is reported as an
\* error
MongoDB_FindUserByID(id) ==
  LET hits == SelectSeq(users, LAMBDA d : d.Id = id) IN
  { [ptr |-> NilUser, err |-> TRUE, text |-> ErrDriver] }
    \cup (IF hits = << >>
          THEN { [ptr |-> NilUser, err |-> TRUE, text |-> ErrNoDocuments] }
          ELSE { [ptr |-> PtrTo(hits[1]), err |-> FALSE, text |-> << >>] })

\* the loop without user.Password = ""
ScrubPasswords_Kept(docs) == docs

\* the loop of MongoDB.FindAllUsers: every decoded document has its Password
\* cleared before it is appended
ScrubPasswords(docs) == [k \in 1..Len(docs) |-> [docs[k] EXCEPT !.Password = ""]]

\* MongoDB.FindAllUsers: the documents whose company is companyId, or an error
MongoDB_FindAllUsers(companyId) ==
  { [list |-> ScrubPasswords(SelectSeq(users, LAMBDA d : d.Company = companyId)),
     err |-> FALSE, text |-> << >>],
    [list |-> << >>, err |-> TRUE, text |-> ErrDriver] }

\* records and identifiers a test double answers with
MockId == (ObjectIDFromHex(MintedHex)).id
MockRecords ==
  { [ZeroUserWithCompany EXCEPT !.Id = MockId, !.Name = "Test User",
       !.Password = "password", !.Email = "test@gmail.com", !.Role = "admin",
       !.Company = (ObjectIDFromHex(CompanyHex)).id] }
ErrMock == <<"mock error">>

\* MockDB.CreateUser: whatever CreateUserFunc returns; nothing is stored
MockDB_CreateUser(u) ==
  { [id |-> MockId, err |-> FALSE, text |-> << >>,
     users |-> users, oidCounter |-> oidCounter],
    [id |-> NilObjectID, err |-> FALSE, text |-> << >>,
     users |-> users, oidCounter |-> oidCounter],
    [id |-> NilObjectID, err |-> TRUE, text |-> ErrMock,
     users |-> users, oidCounter |-> oidCounter] }

\* MockDB.FindUserByEmail: whatever FindUserByEmailFunc returns
MockDB_FindUserByEmail(email) ==
  { [ptr |-> NilUser, err |-> e, text |-> IF e THEN ErrMock ELSE << >>] : e \in BOOLEAN }
    \cup { [ptr |-> PtrTo(r), err |-> FALSE, text |-> << >>] : r \in MockRecords }

\* MockDB.FindUserByID: whatever FindUserByIDFunc returns, or (nil, nil)
MockDB_FindUserByID(id) ==
  { [ptr |-> NilUser, err |-> e, text |-> IF e THEN ErrMock ELSE << >>] : e \in BOOLEAN }
    \cup { [ptr |-> PtrTo(r), err |-> FALSE, text |-> << >>] : r \in MockRecords }

\* MockDB.FindAllUsers: whatever FindAllUsersFunc returns
MockDB_FindAllUsers(companyId) ==
  { [list |-> l, err |-> FALSE, text |-> << >>] : l \in {<< >>} \cup {<<r>> : r \in MockRecords} }
    \cup { [list |-> << >>, err |-> TRUE, text |-> ErrMock] }

\* dispatch of DB.CreateUser, DB.FindUserByEmail, DB.FindAllUsers
DB_CreateUser(u) ==
  IF DB = "MongoDB" THEN MongoDB_CreateUser(u) ELSE MockDB_CreateUser(u)
DB_FindUserByEmail(email) ==
  IF DB = "MongoDB" THEN MongoDB_FindUserByEmail(email) ELSE MockDB_FindUserByEmail(email)
DB_FindAllUsers(companyId) ==
  IF DB = "MongoDB" THEN MongoDB_FindAllUsers(companyId) ELSE MockDB_FindAllUsers(companyId)
DB_FindUserByID(id) ==
  IF DB = "MongoDB" THEN MongoDB_FindUserByID(id) ELSE MockDB_FindUserByID(id)


(***************************************************************************)
(* POST /users, guarded handler                                            *)
(***************************************************************************)
IsBlank(u, f) ==
  CASE f = "Name" -> u.Name = ""
    [] f = "Password" -> u.Password = ""
    [] f = "Email" -> u.Email = ""
    [] f = "Role" -> u.Role = ""
    [] f = "Company" -> u.Company = EmptyToken

\* ValidateRequest that stops at the first empty field
ValidateRequest_FirstOnly(u) ==
  LET all == SelectSeq(RequiredFields, LAMBDA f : IsBlank(u, f))
  IN  IF all = << >> THEN << >> ELSE <<all[1]>>

\* ValidateRequest: validate.Struct reports every required field that holds
\* its zero value; << >> is the nil error
ValidateRequest(u) == SelectSeq(RequiredFields, LAMBDA f : IsBlank(u, f))

\* the attempt ends with the answer r
Finish(a, r) == [a EXCEPT !.pc = "done", !.resp = r, !.answers = @ + 1]

\* attempts are numbered in the order their requests arrive
NextToArrive(i) == att[i].pc = "idle" /\ \A j \in Attempts : j < i => att[j].pc # "idle"

\* Bound without the call of ValidateRequest
Bound_Unvalidated(i, body) ==
  LET a == [att[i] EXCEPT !.bodyOk = body.bodyOk, !.req = body.user, !.user = body.user]
  IN  IF ~body.bodyOk THEN Finish(a, BareAnswer(StatusBadRequest))
      ELSE [a EXCEPT !.pc = "find"]

\* Bound with the error of c.BindJSON not looked at: what was bound so far
\* goes on to ValidateRequest
Bound_BindIgnored(i, body) ==
  LET a == [att[i] EXCEPT !.bodyOk = body.bodyOk, !.req = body.user, !.user = body.user]
      verr == ValidateRequest(body.user)
  IN  IF verr # << >>
      THEN Finish(a, ErrorAnswer(StatusBadRequest, "validation error", verr))
      ELSE [a EXCEPT !.pc = "find"]

\* the handler up to its first store call: c.BindJSON and ValidateRequest
Bound(i, body) ==
  LET a == [att[i] EXCEPT !.bodyOk = body.bodyOk, !.req = body.user, !.user = body.user]
      verr == ValidateRequest(body.user)
  IN  IF ~body.bodyOk THEN Finish(a, BareAnswer(StatusBadRequest))
      ELSE IF verr # << >>
      THEN Finish(a, ErrorAnswer(StatusBadRequest, "validation error", verr))
      ELSE [a EXCEPT !.pc = "find"]

CreateUser_Bind(i, body) ==
  /\ NextToArrive(i)
  /\ att' = [att EXCEPT ![i] = Bound(i, body)]
  /\ overlapped' = (overlapped \/ \E j \in Attempts : InFlight(att[j]))
  /\ lastGet' = NoGet
  /\ UNCHANGED <<DB, users, oidCounter, companies>>

\* the record assembled without the role
WithCompany_NoRole(u, companyId) ==
  [ZeroUserWithCompany EXCEPT !.Name = u.Name, !.Email = u.Email,
     !.Password = u.Password, !.Company = companyId]

\* models.UserWithCompanyAsObject{Name, Email, Password, Role, Company}
WithCompany(u, companyId) ==
  [ZeroUserWithCompany EXCEPT !.Name = u.Name, !.Email = u.Email,
     !.Password = u.Password, !.Role = u.Role, !.Company = companyId]

\* the duplicate answer without the email
AlreadyExists_NoEmail(rec) == "User already exists"

\* the text of the duplicate answer: it is built from the record found
AlreadyExists(rec) == "User already exists with email: " \o rec.Email

ErrInvalidHex == <<"the provided hex string is not a valid ObjectID">>

\* Looked with the company decoded before the record found is looked at
Looked_DecodeFirst(a, o) ==
  LET b == [a EXCEPT !.nFind = @ + 1, !.found = o.ptr, !.findErr = o.err,
                     !.findMissed = (o.ptr.nil /\ \E k \in DOMAIN users :
                                                   users[k].Email = a.user.Email)]
      dec == ObjectIDFromHex(a.user.Company)
  IN  IF dec.err
      THEN Finish(b, ErrorAnswer(StatusInternalServerError,
                                 "error on companyId as an object", ErrInvalidHex))
      ELSE IF ~o.ptr.nil
      THEN Finish(b, ErrorAnswer(StatusBadRequest, AlreadyExists(o.ptr.rec),
                                 <<AlreadyExists(o.ptr.rec)>>))
      ELSE [b EXCEPT !.pc = "create", !.companyIdObject = dec.id,
                     !.userWithCompany = WithCompany(a.user, dec.id)]

\* Looked with the record found ignored
Looked_Unguarded(a, o) ==
  LET b == [a EXCEPT !.nFind = @ + 1, !.found = o.ptr, !.findErr = o.err,
                     !.findMissed = (o.ptr.nil /\ \E k \in DOMAIN users :
                                                   users[k].Email = a.user.Email)]
      dec == ObjectIDFromHex(a.user.Company)
  IN  IF dec.err
      THEN Finish(b, ErrorAnswer(StatusInternalServerError,
                                 "error on companyId as an object", ErrInvalidHex))
      ELSE [b EXCEPT !.pc = "create", !.companyIdObject = dec.id,
                     !.userWithCompany = WithCompany(a.user, dec.id)]

\* Looked with the error of the decoding dropped, as FindById drops it
Looked_Undecoded(a, o) ==
  LET b == [a EXCEPT !.nFind = @ + 1, !.found = o.ptr, !.findErr = o.err,
                     !.findMissed = (o.ptr.nil /\ \E k \in DOMAIN users :
                                                   users[k].Email = a.user.Email)]
      dec == ObjectIDFromHex(a.user.Company)
  IN  IF ~o.ptr.nil
      THEN Finish(b, ErrorAnswer(StatusBadRequest, AlreadyExists(o.ptr.rec),
                                 <<AlreadyExists(o.ptr.rec)>>))
      ELSE [b EXCEPT !.pc = "create", !.companyIdObject = dec.id,
                     !.userWithCompany = WithCompany(a.user, dec.id)]

\* Looked with a lookup error other than "no documents" ending the attempt
Looked_LookupErrorFatal(a, o) ==
  LET b == [a EXCEPT !.nFind = @ + 1, !.found = o.ptr, !.findErr = o.err,
                     !.findMissed = (o.ptr.nil /\ \E k \in DOMAIN users :
                                                   users[k].Email = a.user.Email)]
      dec == ObjectIDFromHex(a.user.Company)
  IN  IF o.err /\ o.text # ErrNoDocuments
      THEN Finish(b, ErrorAnswer(StatusInternalServerError,
                                 "Error getting a user from database with provided email", o.text))
      ELSE IF ~o.ptr.nil
      THEN Finish(b, ErrorAnswer(StatusBadRequest, AlreadyExists(o.ptr.rec),
                                 <<AlreadyExists(o.ptr.rec)>>))
      ELSE IF dec.err
      THEN Finish(b, ErrorAnswer(StatusInternalServerError,
                                 "error on companyId as an object", ErrInvalidHex))
      ELSE [b EXCEPT !.pc = "create", !.companyIdObject = dec.id,
                     !.userWithCompany = WithCompany(a.user, dec.id)]

\* from the lookup to the decoding of the company: DB.FindUserByEmail, whose
\* error is dropped, then primitive.ObjectIDFromHex(user.Company)
Looked(a, o) ==
  LET b == [a EXCEPT !.nFind = @ + 1, !.found = o.ptr, !.findErr = o.err,
                     !.findMissed = (o.ptr.nil /\ \E k \in DOMAIN users :
                                                   users[k].Email = a.user.Email)]
      dec == ObjectIDFromHex(a.user.Company)
  IN  IF ~o.ptr.nil
      THEN Finish(b, ErrorAnswer(StatusBadRequest, AlreadyExists(o.ptr.rec),
                                 <<AlreadyExists(o.ptr.rec)>>))
      ELSE IF dec.err
      THEN Finish(b, ErrorAnswer(StatusInternalServerError,
                                 "error on companyId as an object", ErrInvalidHex))
      ELSE [b EXCEPT !.pc = "create", !.companyIdObject = dec.id,
                     !.userWithCompany = WithCompany(a.user, dec.id)]

CreateUser_FindUserByEmail(i) ==
  /\ att[i].pc = "find"
  /\ \E o \in DB_FindUserByEmail(att[i].user.Email) :
       att' = [att EXCEPT ![i] = Looked(att[i], o)]
  /\ lastGet' = NoGet
  /\ UNCHANGED <<DB, users, oidCounter, companies, overlapped>>

\* Stored without the assignment user.Id = userId.Hex()
Stored_NoId(a, o) ==
  LET b == [a EXCEPT !.nCreate = @ + 1, !.userId = o.id, !.createErr = o.err] IN
  IF o.err
  THEN Finish(b, ErrorAnswer(StatusInternalServerError,
                             "error storing user on database", o.text))
  ELSE Finish(b, UserAnswer(StatusCreated, "success", a.user))

\* Stored with a second look at the collection: a record stored meanwhile
\* under the same email turns the answer into the duplicate answer
Stored_Rechecked(a, o) ==
  LET b == [a EXCEPT !.nCreate = @ + 1, !.userId = o.id, !.createErr = o.err] IN
  IF o.err
  THEN Finish(b, ErrorAnswer(StatusInternalServerError,
                             "error storing user on database", o.text))
  ELSE IF \E k \in DOMAIN users : users[k].Email = a.user.Email
  THEN Finish(b, ErrorAnswer(StatusBadRequest, "User already exists with email: " \o a.user.Email,
                             << >>))
  ELSE Finish([b EXCEPT !.user.Id = Hex(o.id)],
              UserAnswer(StatusCreated, "success", [a.user EXCEPT !.Id = Hex(o.id)]))

\* Stored with the failure answer of the older handler
Stored_OldMessage(a, o) ==
  LET b == [a EXCEPT !.nCreate = @ + 1, !.userId = o.id, !.createErr = o.err] IN
  IF o.err
  THEN Finish(b, ErrorAnswer(StatusInternalServerError, "error creating a user", o.text))
  ELSE Finish([b EXCEPT !.user.Id = Hex(o.id)],
              UserAnswer(StatusCreated, "success", [a.user EXCEPT !.Id = Hex(o.id)]))

\* Stored with a failed insert tried once more
Stored_RetryOnce(a, o) ==
  LET b == [a EXCEPT !.nCreate = @ + 1, !.userId = o.id, !.createErr = o.err] IN
  IF o.err /\ a.nCreate = 0
  THEN b
  ELSE IF o.err
  THEN Finish(b, ErrorAnswer(StatusInternalServerError,
                             "error storing user on database", o.text))
  ELSE Finish([b EXCEPT !.user.Id = Hex(o.id)],
              UserAnswer(StatusCreated, "success", [a.user EXCEPT !.Id = Hex(o.id)]))

\* Stored with the failure of DB.CreateUser answered as a client error
Stored_ErrorAsBadRequest(a, o) ==
  LET b == [a EXCEPT !.nCreate = @ + 1, !.userId = o.id, !.createErr = o.err] IN
  IF o.err
  THEN Finish(b, ErrorAnswer(StatusBadRequest,
                             "error storing user on database", o.text))
  ELSE Finish([b EXCEPT !.user.Id = Hex(o.id)],
              UserAnswer(StatusCreated, "success", [a.user EXCEPT !.Id = Hex(o.id)]))

\* after DB.CreateUser: the failure answer, or user.Id = userId.Hex() and 201
Stored(a, o) ==
  LET b == [a EXCEPT !.nCreate = @ + 1, !.userId = o.id, !.createErr = o.err] IN
  IF o.err
  THEN Finish(b, ErrorAnswer(StatusInternalServerError,
                             "error storing user on database", o.text))
  ELSE Finish([b EXCEPT !.user.Id = Hex(o.id)],
              UserAnswer(StatusCreated, "success", [a.user EXCEPT !.Id = Hex(o.id)]))

CreateUser_DBCreateUser(i) ==
  /\ att[i].pc = "create"
  /\ \E o \in DB_CreateUser(att[i].userWithCompany) :
       /\ att' = [att EXCEPT ![i] = Stored(att[i], o)]
       /\ users' = o.users
       /\ oidCounter' = o.oidCounter
  /\ lastGet' = NoGet
  /\ UNCHANGED <<DB, companies, overlapped>>


(***************************************************************************)
(* GET /users                                                              *)
(***************************************************************************)
\* the literal a client sends for a company it does not know
Undefined == <<"u","n","d","e","f","i","n","e","d">>

\* the email and company parameters of the GET requests made while users
\* of two companies register
Queries ==
  { <<"", EmptyToken>>, <<"", Undefined>>, <<"", CompanyHex>>, <<"", CompanyHexUpper>>,
    <<"", BadHex>>, <<"test@example.com", CompanyHex>> }

\* FindByEmail answering as the listing does, with the Password cleared
FindByEmail_Scrubbed(g, o) ==
  IF o.err
  THEN [g EXCEPT !.askedByEmail = TRUE, !.storeErr = TRUE,
                 !.status = StatusInternalServerError,
                 !.message = "Error getting a user from database with provided email",
                 !.kind = "data", !.data = o.text]
  ELSE [g EXCEPT !.askedByEmail = TRUE, !.status = StatusOK, !.message = "success",
                 !.kind = "user",
                 !.user = [o.ptr EXCEPT !.rec = [o.ptr.rec EXCEPT !.Password = ""]]]

\* FindByEmail: DB.FindUserByEmail, then 500 with the error text or 200 with
\* the pointer the store returned
FindByEmail(g, o) ==
  IF o.err
  THEN [g EXCEPT !.askedByEmail = TRUE, !.storeErr = TRUE,
                 !.status = StatusInternalServerError,
                 !.message = "Error getting a user from database with provided email",
                 !.kind = "data", !.data = o.text]
  ELSE [g EXCEPT !.askedByEmail = TRUE, !.status = StatusOK, !.message = "success",
                 !.kind = "user", !.user = o.ptr]

\* the company branch answering an error of the store as an empty listing
Listed_ErrorAsEmpty(g, objId, o) ==
  IF o.err
  THEN [g EXCEPT !.askedAll = TRUE, !.objId = objId, !.storeErr = TRUE,
                 !.status = StatusOK, !.message = "success", !.kind = "users",
                 !.users = o.list]
  ELSE [g EXCEPT !.askedAll = TRUE, !.objId = objId, !.status = StatusOK,
                 !.message = "success", !.kind = "users", !.users = o.list]

\* the company branch of GetUsers after DB.FindAllUsers
Listed(g, objId, o) ==
  IF o.err
  THEN [g EXCEPT !.askedAll = TRUE, !.objId = objId, !.storeErr = TRUE,
                 !.status = StatusInternalServerError,
                 !.message = "There was a problem trying to find users on database",
                 !.kind = "nil"]
  ELSE [g EXCEPT !.askedAll = TRUE, !.objId = objId, !.status = StatusOK,
                 !.message = "success", !.kind = "users", !.users = o.list]

\* the company parameter counts as missing
CompanyMissing_EmptyOnly(company) == company = EmptyToken

CompanyMissing(company) == company = EmptyToken \/ company = Undefined

\* GetUsers with the company parameter looked at before the email parameter
GetUsers_CompanyFirst(email, company) ==
  LET g == [NoGet EXCEPT !.email = email, !.company = company]
      dec == ObjectIDFromHex(company)
  IN  /\ IF CompanyMissing(company)
         THEN lastGet' = [g EXCEPT !.status = StatusBadRequest,
                !.message = "Error getting user for a company, Company query parameter is missing",
                !.kind = "nil"]
         ELSE IF email # ""
         THEN \E o \in DB_FindUserByEmail(email) : lastGet' = FindByEmail(g, o)
         ELSE \E o \in DB_FindAllUsers(dec.id) :
                lastGet' = Listed([g EXCEPT !.decodeErr = dec.err], dec.id, o)
      /\ UNCHANGED <<DB, users, oidCounter, att, companies, overlapped>>

\* GetUsers: the email parameter first, then the company parameter, whose
\* decoding error is dropped
GetUsers(email, company) ==
  LET g == [NoGet EXCEPT !.email = email, !.company = company]
      dec == ObjectIDFromHex(company)
  IN  /\ IF email # ""
         THEN \E o \in DB_FindUserByEmail(email) : lastGet' = FindByEmail(g, o)
         ELSE IF CompanyMissing(company)
         THEN lastGet' = [g EXCEPT !.status = StatusBadRequest,
                !.message = "Error getting user for a company, Company query parameter is missing",
                !.kind = "nil"]
         ELSE \E o \in DB_FindAllUsers(dec.id) :
                lastGet' = Listed([g EXCEPT !.decodeErr = dec.err], dec.id, o)
      /\ UNCHANGED <<DB, users, oidCounter, att, companies, overlapped>>

\* FoundById with "no documents" told apart from the other errors
FoundById_NotFoundApart(g, objId, o) ==
  IF o.err /\ o.text = ErrNoDocuments
  THEN [g EXCEPT !.askedById = TRUE, !.objId = objId, !.storeErr = TRUE,
                 !.status = StatusBadRequest, !.message = "User not found",
                 !.kind = "nil"]
  ELSE IF o.err
  THEN [g EXCEPT !.askedById = TRUE, !.objId = objId, !.storeErr = TRUE,
                 !.status = StatusInternalServerError,
                 !.message = "Error getting a user from database",
                 !.kind = "data", !.data = o.text]
  ELSE [g EXCEPT !.askedById = TRUE, !.objId = objId, !.status = StatusOK,
                 !.message = "success", !.kind = "user", !.user = o.ptr]

\* FindById after DB.FindUserByID: 500 with the error text, or 200 with the
\* pointer the store returned
FoundById(g, objId, o) ==
  IF o.err
  THEN [g EXCEPT !.askedById = TRUE, !.objId = objId, !.storeErr = TRUE,
                 !.status = StatusInternalServerError,
                 !.message = "Error getting a user from database",
                 !.kind = "data", !.data = o.text]
  ELSE [g EXCEPT !.askedById = TRUE, !.objId = objId, !.status = StatusOK,
                 !.message = "success", !.kind = "user", !.user = o.ptr]

\* FindById: the userId of the path is decoded, the decoding error dropped
FindById(userId) ==
  LET g == [NoGet EXCEPT !.userId = userId]
      dec == ObjectIDFromHex(userId)
  IN  /\ \E o \in DB_FindUserByID(dec.id) :
           lastGet' = FoundById([g EXCEPT !.decodeErr = dec.err], dec.id, o)
      /\ UNCHANGED <<DB, users, oidCounter, att, companies, overlapped>>

\* a token shorter than an identifier, as the tests send
ShortHex == <<"6","4","d","c">>

\* the parameters of the lookups: email and company of GET /users
LookupQueries ==
  { <<"", EmptyToken>>, <<"", Undefined>>, <<"", CompanyHex>>, <<"", BadHex>>,
    <<"", ShortHex>>,
    <<"test@example.com", EmptyToken>>, <<"test@example.com", Undefined>>,
    <<"test@example.com", BadHex>>, <<"test@example.com", CompanyHex>>,
    <<"jane@example.com", EmptyToken>> }

\* the userId of GET /users/:userId: the first identifier the collection
\* assigns, an identifier of no document, and two tokens that do not decode
LookupIds == { Hex(NewObjectID(1)), CompanyHex, BadHex, ShortHex }

\* the bodies posted while single records are looked up: a company that
\* decodes and one that does not
LookupBodies ==
  { [bodyOk |-> TRUE, user |-> [BaseUser EXCEPT !.Company = c]] : c \in {CompanyHex, BadHex} }

(***************************************************************************)
(* The service with the guarded handler                                    *)
(***************************************************************************)
Implementations == {"MongoDB", "MockDB"}

Start(impls) ==
  /\ DB \in impls
  /\ users = << >>
  /\ oidCounter = 0
  /\ att = [i \in Attempts |-> IdleAttempt]
  /\ lastGet = NoGet
  /\ companies = << >>
  /\ overlapped = FALSE

Register(bodies) ==
  \/ \E i \in Attempts, body \in bodies : CreateUser_Bind(i, body)
  \/ \E i \in Attempts : CreateUser_FindUserByEmail(i)
  \/ \E i \in Attempts : CreateUser_DBCreateUser(i)

\* registrations over the store init() wires, DB = configs.NewMongoDB(...),
\* or over the double the tests assign, DB = mockDB
Init == Start(Implementations)
Next == Register(Bodies)
Spec == Init /\ [][Next]_vars

\* the body attempt i posts while the listing is queried: the two users
\* take turns
QueryBody(i) ==
  CHOOSE b \in QueryBodies :
    b.user.Email = (IF i % 2 = 1 THEN "test@example.com" ELSE "jane@example.com")

\* registrations and listings, over either implementation
InitQuery == Start(Implementations)
NextQuery ==
  \/ \E i \in Attempts : CreateUser_Bind(i, QueryBody(i))
  \/ \E i \in Attempts : CreateUser_FindUserByEmail(i)
  \/ \E i \in Attempts : CreateUser_DBCreateUser(i)
  \/ \E q \in Queries : GetUsers(q[1], q[2])
SpecQuery == InitQuery /\ [][NextQuery]_vars

\* registrations and every lookup route, over either implementation
InitLookup == Start(Implementations)
NextLookup ==
  \/ \E i \in Attempts \cap (1..MaxLookupAttempts), body \in LookupBodies :
       CreateUser_Bind(i, body)
  \/ \E i \in Attempts \cap (1..MaxLookupAttempts) : CreateUser_FindUserByEmail(i)
  \/ \E i \in Attempts \cap (1..MaxLookupAttempts) : CreateUser_DBCreateUser(i)
  \/ \E q \in LookupQueries : GetUsers(q[1], q[2])
  \/ \E id \in LookupIds : FindById(id)
SpecLookup == InitLookup /\ [][NextLookup]_vars

(***************************************************************************)
(* One email registered twice while its record is looked up                *)
(***************************************************************************)
\* the body attempt i posts: the same user every time, for the two companies
\* in turn
StoreBody(i) ==
  [bodyOk |-> TRUE,
   user |-> [BaseUser EXCEPT !.Company = IF i % 2 = 1 THEN CompanyHex ELSE MintedHex]]

\* the lookups made meanwhile: by the registered email, by either company,
\* and by the first two identifiers the collection assigns
StoreQueries ==
  { <<"test@example.com", Undefined>>, <<"", CompanyHex>>, <<"", MintedHex>> }
StoreIds == { Hex(NewObjectID(1)), Hex(NewObjectID(2)) }

\* registrations and every lookup route over the collection
InitStore == Start({"MongoDB"})
NextStore ==
  \/ \E i \in Attempts : CreateUser_Bind(i, StoreBody(i))
  \/ \E i \in Attempts : CreateUser_FindUserByEmail(i)
  \/ \E i \in Attempts : CreateUser_DBCreateUser(i)
  \/ \E q \in StoreQueries : GetUsers(q[1], q[2])
  \/ \E id \in StoreIds : FindById(id)
SpecStore == InitStore /\ [][NextStore]_vars

(***************************************************************************)
(* One user registered under companies of every shape                      *)
(***************************************************************************)
\* twenty-four zeros: a token that decodes, to the zero identifier
ZeroHex == [k \in 1..(2 * ObjectIDLen) |-> "0"]

\* the bodies posted: a company that decodes, the one that decodes to the
\* zero identifier, and one that does not decode
CompanyBodies ==
  { [bodyOk |-> TRUE, user |-> [BaseUser EXCEPT !.Company = c]] :
      c \in {CompanyHex, ZeroHex, BadHex} }

InitCompany == Start(Implementations)
NextCompany == Register(CompanyBodies)
SpecCompany == InitCompany /\ [][NextCompany]_vars

(***************************************************************************)
(* POST /users under the deadline of its context                           *)
(***************************************************************************)
\* context.WithTimeout(context.Background(), 10*time.Second), in seconds
Timeout == 10

\* how long a store call may need: little, more than half of the timeout,
\* more than the timeout
Durations == {1, 6, 11}

\* context.DeadlineExceeded, as the driver returns it
ErrDeadline == <<"context deadline exceeded">>

\* a deadline of its own for every call
Expired_OwnBudget(spent, d) == d > Timeout

\* the deadline of ctx passes during a call that needs d when spent has
\* passed since ctx was made: every call of the handler is given that ctx
Expired(spent, d) == spent + d > Timeout

\* the time on ctx after such a call: the call returns at the deadline
Spent(spent, d) == IF Expired(spent, d) THEN Timeout ELSE spent + d

\* DB.FindUserByEmail(ctx, user.Email) taking its time
Timed_FindUserByEmail(i) ==
  /\ att[i].pc = "find"
  /\ \E d \in Durations :
       LET late == Expired(att[i].elapsed, d)
           outcomes == IF late
                       THEN { [ptr |-> NilUser, err |-> TRUE, text |-> ErrDeadline] }
                       ELSE DB_FindUserByEmail(att[i].user.Email)
       IN  \E o \in outcomes :
             att' = [att EXCEPT ![i] =
                       [Looked(att[i], o) EXCEPT !.elapsed = Spent(att[i].elapsed, d),
                                                 !.findTook = d, !.findAborted = late]]
  /\ lastGet' = NoGet
  /\ UNCHANGED <<DB, users, oidCounter, companies, overlapped>>

\* DB.CreateUser(ctx, userWithCompany) taking its time
Timed_DBCreateUser(i) ==
  /\ att[i].pc = "create"
  /\ \E d \in Durations :
       LET late == Expired(att[i].elapsed, d)
           outcomes == IF late
                       THEN { [id |-> NilObjectID, err |-> TRUE, text |-> ErrDeadline,
                               users |-> users, oidCounter |-> oidCounter] }
                       ELSE DB_CreateUser(att[i].userWithCompany)
       IN  \E o \in outcomes :
             /\ att' = [att EXCEPT ![i] =
                          [Stored(att[i], o) EXCEPT !.elapsed = Spent(att[i].elapsed, d),
                                                    !.createTook = d, !.createAborted = late]]
             /\ users' = o.users
             /\ oidCounter' = o.oidCounter
  /\ lastGet' = NoGet
  /\ UNCHANGED <<DB, companies, overlapped>>

\* the bodies posted: one user, with a company that decodes
TimedBodies == { [bodyOk |-> TRUE, user |-> BaseUser] }

InitTimed == Start({"MongoDB"})
NextTimed ==
  \/ \E i \in Attempts, body \in TimedBodies : CreateUser_Bind(i, body)
  \/ \E i \in Attempts : Timed_FindUserByEmail(i)
  \/ \E i \in Attempts : Timed_DBCreateUser(i)
SpecTimed == InitTimed /\ [][NextTimed]_vars


(***************************************************************************)
(* POST /users, provisioning handler: the company is resolved by the       *)
(* invitation flag, and there is no email lookup                           *)
(***************************************************************************)
\* what Client.Do and the body of its response may be.  created says whether
\* the company service answered with the status Created, having created the
\* company; the last response is another status with an "id" in its body
CompanyResponses ==
  { [doErr |-> TRUE,  readable |-> FALSE, json |-> FALSE, error |-> FALSE,
     message |-> "none", id |-> "none", idStr |-> EmptyToken, created |-> FALSE],
    [doErr |-> FALSE, readable |-> FALSE, json |-> FALSE, error |-> FALSE,
     message |-> "none", id |-> "none", idStr |-> EmptyToken, created |-> FALSE],
    [doErr |-> FALSE, readable |-> TRUE,  json |-> FALSE, error |-> FALSE,
     message |-> "none", id |-> "none", idStr |-> EmptyToken, created |-> FALSE],
    [doErr |-> FALSE, readable |-> TRUE,  json |-> TRUE,  error |-> TRUE,
     message |-> "string", id |-> "none", idStr |-> EmptyToken, created |-> FALSE],
    [doErr |-> FALSE, readable |-> TRUE,  json |-> TRUE,  error |-> TRUE,
     message |-> "none", id |-> "none", idStr |-> EmptyToken, created |-> FALSE],
    [doErr |-> FALSE, readable |-> TRUE,  json |-> TRUE,  error |-> FALSE,
     message |-> "none", id |-> "none", idStr |-> EmptyToken, created |-> FALSE],
    [doErr |-> FALSE, readable |-> TRUE,  json |-> TRUE,  error |-> FALSE,
     message |-> "none", id |-> "number", idStr |-> EmptyToken, created |-> TRUE],
    [doErr |-> FALSE, readable |-> TRUE,  json |-> TRUE,  error |-> FALSE,
     message |-> "none", id |-> "string", idStr |-> MintedHex, created |-> TRUE],
    [doErr |-> FALSE, readable |-> TRUE,  json |-> TRUE,  error |-> FALSE,
     message |-> "none", id |-> "string", idStr |-> CompanyName, created |-> TRUE],
    [doErr |-> FALSE, readable |-> TRUE,  json |-> TRUE,  error |-> FALSE,
     message |-> "none", id |-> "string", idStr |-> MintedHex, created |-> FALSE] }

\* CreateCompany after Client.Do: the id string, an error, or a panic on the
\* type assertion responseMap["message"].(string)
CreateCompany(r) ==
  CASE r.doErr ->
         [idStr |-> EmptyToken, err |-> TRUE, panic |-> FALSE,
          text |-> <<"failed creating a new company on separate service">>]
    [] ~r.doErr /\ ~r.readable ->
         [idStr |-> EmptyToken, err |-> TRUE, panic |-> FALSE, text |-> <<"read error">>]
    [] ~r.doErr /\ r.readable /\ ~r.json ->
         [idStr |-> EmptyToken, err |-> TRUE, panic |-> FALSE, text |-> <<"unmarshal error">>]
    [] ~r.doErr /\ r.readable /\ r.json /\ r.error /\ r.message = "string" ->
         [idStr |-> EmptyToken, err |-> TRUE, panic |-> FALSE, text |-> <<"message">>]
    [] ~r.doErr /\ r.readable /\ r.json /\ r.error /\ r.message # "string" ->
         [idStr |-> EmptyToken, err |-> FALSE, panic |-> TRUE, text |-> << >>]
    [] ~r.doErr /\ r.readable /\ r.json /\ ~r.error /\ r.id # "string" ->
         [idStr |-> EmptyToken, err |-> TRUE, panic |-> FALSE,
          text |-> <<"failed to extract company ID">>]
    [] ~r.doErr /\ r.readable /\ r.json /\ ~r.error /\ r.id = "string" ->
         [idStr |-> r.idStr, err |-> FALSE, panic |-> FALSE, text |-> << >>]

\* after the company identifier is decoded: err2 # nil reaches
\* c.JSON(..., err.Error()) with err = nil, which panics; otherwise the
\* record is assembled for DB.CreateUser
Resolved(a, dec) ==
  IF dec.err
  THEN Finish(a, BareAnswer(StatusInternalServerError))
  ELSE [a EXCEPT !.pc = "create", !.companyIdObject = dec.id,
                 !.userWithCompany = WithCompany(a.user, dec.id)]

\* ProvisionBound with the invitation flag not read: every company is created
ProvisionBound_AlwaysCreate(i, body) ==
  LET a == [att[i] EXCEPT !.bodyOk = body.bodyOk, !.req = body.user, !.user = body.user]
      verr == ValidateRequest(body.user)
  IN  IF ~body.bodyOk THEN Finish(a, BareAnswer(StatusBadRequest))
      ELSE IF verr # << >>
      THEN Finish(a, ErrorAnswer(StatusBadRequest, "validation error", verr))
      ELSE [a EXCEPT !.pc = "company"]

\* the handler up to its first blocking call: c.BindJSON, ValidateRequest
\* and, for an invited user, the decoding of user.Company
ProvisionBound(i, body) ==
  LET a == [att[i] EXCEPT !.bodyOk = body.bodyOk, !.req = body.user, !.user = body.user]
      verr == ValidateRequest(body.user)
  IN  IF ~body.bodyOk THEN Finish(a, BareAnswer(StatusBadRequest))
      ELSE IF verr # << >>
      THEN Finish(a, ErrorAnswer(StatusBadRequest, "validation error", verr))
      ELSE IF body.user.Invitation
      THEN Resolved(a, ObjectIDFromHex(body.user.Company))
      ELSE [a EXCEPT !.pc = "company"]

Provision_Bind(i, body) ==
  /\ NextToArrive(i)
  /\ att' = [att EXCEPT ![i] = ProvisionBound(i, body)]
  /\ overlapped' = (overlapped \/ \E j \in Attempts : InFlight(att[j]))
  /\ lastGet' = NoGet
  /\ UNCHANGED <<DB, users, oidCounter, companies>>

\* Provisioned with the request's company decoded in place of the id returned
Provisioned_OwnCompany(a, r) ==
  LET b == [a EXCEPT !.nDo = @ + 1, !.doName = a.user.Company, !.doResp = r]
      c == CreateCompany(r)
  IN  IF c.panic THEN Finish(b, BareAnswer(StatusInternalServerError))
      ELSE IF c.err
      THEN Finish(b, ErrorAnswer(StatusInternalServerError, "company error", c.text))
      ELSE Resolved([b EXCEPT !.companyIdStr = c.idStr], ObjectIDFromHex(a.user.Company))

\* CreateCompany(user.Company) and what the handler does with its result
Provisioned(a, r) ==
  LET b == [a EXCEPT !.nDo = @ + 1, !.doName = a.user.Company, !.doResp = r]
      c == CreateCompany(r)
  IN  IF c.panic THEN Finish(b, BareAnswer(StatusInternalServerError))
      ELSE IF c.err
      THEN Finish(b, ErrorAnswer(StatusInternalServerError, "company error", c.text))
      ELSE Resolved([b EXCEPT !.companyIdStr = c.idStr], ObjectIDFromHex(c.idStr))

Provision_CreateCompany(i) ==
  /\ att[i].pc = "company"
  /\ \E r \in CompanyResponses :
       /\ att' = [att EXCEPT ![i] = Provisioned(att[i], r)]
       /\ companies' = IF r.created THEN Append(companies, att[i].user.Company)
                                    ELSE companies
  /\ lastGet' = NoGet
  /\ UNCHANGED <<DB, users, oidCounter, overlapped>>

\* after DB.CreateUser in the provisioning handler
ProvisionStored(a, o) ==
  LET b == [a EXCEPT !.nCreate = @ + 1, !.userId = o.id, !.createErr = o.err] IN
  IF o.err
  THEN Finish(b, ErrorAnswer(StatusInternalServerError, "error creating a user", o.text))
  ELSE Finish([b EXCEPT !.user.Id = Hex(o.id)],
              UserAnswer(StatusCreated, "success", [a.user EXCEPT !.Id = Hex(o.id)]))

Provision_DBCreateUser(i) ==
  /\ att[i].pc = "create"
  /\ \E o \in DB_CreateUser(att[i].userWithCompany) :
       /\ att' = [att EXCEPT ![i] = ProvisionStored(att[i], o)]
       /\ users' = o.users
       /\ oidCounter' = o.oidCounter
  /\ lastGet' = NoGet
  /\ UNCHANGED <<DB, companies, overlapped>>

\* the bodies posted to the provisioning handler
ProvisionBodies ==
  { b \in Bodies : /\ b.user \in ValidUsers => b.user.Email = "test@example.com"
                   /\ b.user \in IncompleteUsers => Cardinality({f \in DOMAIN RequiredFields : IsBlank(b.user, RequiredFields[f])}) \in {1, Len(RequiredFields)} }

InitProvision == Start({"MongoDB"})
NextProvision ==
  \/ \E i \in Attempts, body \in ProvisionBodies : Provision_Bind(i, body)
  \/ \E i \in Attempts : Provision_CreateCompany(i)
  \/ \E i \in Attempts : Provision_DBCreateUser(i)
SpecProvision == InitProvision /\ [][NextProvision]_vars


(***************************************************************************)
(* Properties                                                              *)
(***************************************************************************)
Done(i) == att[i].pc = "done"

\* the body of attempt i was JSON
Arrived(i) == att[i].pc # "idle" /\ att[i].bodyOk

\* a body with an empty required field
MissingSome(u) ==
  u.Name = "" \/ u.Password = "" \/ u.Email = "" \/ u.Role = "" \/ u.Company = EmptyToken

\* attempt i made no call to the store or to the company service
NoCalls(i) == att[i].nFind = 0 /\ att[i].nCreate = 0 /\ att[i].nDo = 0

Decodes(token) == ~(ObjectIDFromHex(token)).err

\* C1: a request with an empty name, password, email, role or company is
\* answered 400 "validation error", and the attempt calls neither the store
\* nor the company service.
C1_ValidationBeforeCalls ==
  \A i \in Attempts :
    (Arrived(i) /\ MissingSome(att[i].req)) =>
      /\ Done(i)
      /\ att[i].resp.status = StatusBadRequest
      /\ att[i].resp.message = "validation error"
      /\ att[i].resp.kind = "data"
      /\ NoCalls(i)

\* a rejected incomplete request that arrived after a user was stored
C1_Witness ==
  \E i \in Attempts :
    /\ Done(i) /\ att[i].bodyOk /\ MissingSome(att[i].req)
    /\ att[i].resp.status = StatusBadRequest
    /\ users # << >>

\* attempt i is a complete request that asks for a new company
Founding(i) == Arrived(i) /\ ~MissingSome(att[i].req) /\ ~att[i].req.Invitation

\* attempt i is a complete request that names an existing company
Invited(i) == Arrived(i) /\ ~MissingSome(att[i].req) /\ att[i].req.Invitation

\* attempt i has a record assembled for DB.CreateUser
Assembled(i) == att[i].pc = "create" \/ att[i].nCreate > 0

\* C3 as claimed: the company of the user returned with 201 to a request
\* with invitation = false is the decoded identifier the company service
\* returned, not the company of the request.
C3_AnswerCarriesProvisionedId ==
  \A i \in Attempts :
    (Founding(i) /\ Done(i) /\ att[i].resp.status = StatusCreated) =>
      /\ Decodes(att[i].companyIdStr)
      /\ ObjectIDFromHex(att[i].resp.user.Company) = ObjectIDFromHex(att[i].companyIdStr)

\* C3: a request with invitation = false for which the company service
\* returns a decodable identifier and the insert is accepted is answered 201;
\* the record handed to DB.CreateUser, and stored, carries the decoding of
\* the identifier returned for the request's company, and the user returned
\* carries the company string of the request.
C3_StoredCarriesProvisionedId ==
  \A i \in Attempts :
    /\ (Founding(i) /\ Done(i) /\ att[i].nCreate = 1 /\ ~att[i].createErr) =>
         att[i].resp.status = StatusCreated
    /\ (Founding(i) /\ Done(i) /\ att[i].resp.status = StatusCreated) =>
         /\ att[i].nDo = 1 /\ att[i].doName = att[i].req.Company
         /\ Decodes(att[i].companyIdStr)
         /\ att[i].userWithCompany.Company = (ObjectIDFromHex(att[i].companyIdStr)).id
         /\ \E k \in DOMAIN users :
              /\ users[k].Id = att[i].userId
              /\ users[k].Company = (ObjectIDFromHex(att[i].companyIdStr)).id
         /\ att[i].resp.user.Company = att[i].req.Company

\* a founder of "Test Company" stored under the identifier the service minted
C3_Witness ==
  \E i \in Attempts :
    /\ Founding(i) /\ Done(i) /\ att[i].resp.status = StatusCreated
    /\ att[i].req.Company = CompanyName
    /\ att[i].companyIdStr = MintedHex
    /\ \E k \in DOMAIN users :
         users[k].Id = att[i].userId /\ users[k].Company = (ObjectIDFromHex(MintedHex)).id

Duplicate(i) ==
  Arrived(i) /\ ~MissingSome(att[i].req) /\ att[i].nFind > 0 /\ ~att[i].found.nil

\* C2 as claimed: the duplicate answer is 400 with the message "User already
\* exists with email: " followed by the email of the request, and neither the
\* company service nor DB.CreateUser is called.
C2_EchoesRequestEmail ==
  \A i \in Attempts :
    Duplicate(i) =>
      /\ Done(i)
      /\ att[i].resp.status = StatusBadRequest
      /\ att[i].resp.message = "User already exists with email: " \o att[i].req.Email
      /\ att[i].nDo = 0 /\ att[i].nCreate = 0

\* C2: the duplicate answer is 400 with the message "User already exists with
\* email: " followed by the email of the record the store returned, and
\* neither the company service nor DB.CreateUser is called.
C2_EchoesFoundEmail ==
  \A i \in Attempts :
    Duplicate(i) =>
      /\ Done(i)
      /\ att[i].resp.status = StatusBadRequest
      /\ att[i].resp.message = "User already exists with email: " \o att[i].found.rec.Email
      /\ att[i].resp.data = <<att[i].resp.message>>
      /\ att[i].nDo = 0 /\ att[i].nCreate = 0

\* a duplicate answered from a stored record, whose email is the request's
C2_Witness ==
  \E i \in Attempts :
    /\ Duplicate(i) /\ Done(i) /\ DB = "MongoDB"
    /\ att[i].found.rec.Email = att[i].req.Email
    /\ att[i].resp.status = StatusBadRequest

\* C5 as claimed: a complete request with invitation = true whose company does
\* not decode is answered 500 "error on companyId as an object" and
\* DB.CreateUser is not called.
C5_BadTokenAlways500 ==
  \A i \in Attempts :
    (Done(i) /\ att[i].bodyOk /\ ~MissingSome(att[i].req) /\ att[i].req.Invitation
       /\ ~Decodes(att[i].req.Company)) =>
      /\ att[i].resp.status = StatusInternalServerError
      /\ att[i].resp.message = "error on companyId as an object"
      /\ att[i].nCreate = 0

\* C5: a complete request with invitation = true whose company does not
\* decode, and for which the lookup returned no record, is answered 500
\* "error on companyId as an object"; DB.CreateUser is not called.
C5_BadTokenUnlessDuplicate ==
  \A i \in Attempts :
    (Arrived(i) /\ ~MissingSome(att[i].req) /\ att[i].req.Invitation
       /\ ~Decodes(att[i].req.Company)) =>
      /\ att[i].nCreate = 0 /\ att[i].pc # "create"
      /\ (Done(i) /\ att[i].found.nil) =>
           /\ att[i].resp.status = StatusInternalServerError
           /\ att[i].resp.message = "error on companyId as an object"
           /\ att[i].resp.kind = "data"

\* an invited user with an undecodable company, answered 500
C5_Witness ==
  \E i \in Attempts :
    /\ Done(i) /\ att[i].bodyOk /\ ~MissingSome(att[i].req) /\ att[i].req.Invitation
    /\ ~Decodes(att[i].req.Company) /\ att[i].found.nil /\ att[i].nFind = 1
    /\ att[i].resp.status = StatusInternalServerError

UniqueEmails ==
  \A k, l \in DOMAIN users : k # l => users[k].Email # users[l].Email

\* C7: as long as no attempt started while another was in flight and no
\* lookup returned nil for an email that had a document, the collection
\* holds at most one document per email.
C7_SequentialUnique ==
  (~overlapped /\ \A i \in Attempts : ~att[i].findMissed) => UniqueEmails

\* two attempts, one after the other, with one email: the second is refused
C7_Witness ==
  /\ DB = "MongoDB" /\ ~overlapped
  /\ \E i, j \in Attempts :
       /\ i # j /\ Done(i) /\ Done(j)
       /\ att[i].req.Email = att[j].req.Email
       /\ att[i].resp.status = StatusCreated
       /\ att[j].resp.status = StatusBadRequest /\ ~att[j].found.nil
  /\ Len(users) = 1

\* C8: nothing stands between the lookup and the insert: every attempt whose
\* insert the collection accepted is answered 201 and its document is in the
\* collection, whatever documents were stored since its lookup.
C8_InsertNotExcluded ==
  \A i \in Attempts :
    (DB = "MongoDB" /\ Done(i) /\ att[i].nCreate = 1 /\ ~att[i].createErr) =>
      /\ att[i].resp.status = StatusCreated
      /\ \E k \in DOMAIN users :
           users[k].Id = att[i].userId /\ users[k].Email = att[i].req.Email

\* the race: two attempts with one email, each lookup truthfully empty (made
\* before the other's insert), both answered 201, two documents with that email
C8_Witness ==
  /\ DB = "MongoDB"
  /\ \E i, j \in Attempts :
       /\ i # j /\ Done(i) /\ Done(j)
       /\ att[i].req.Email = att[j].req.Email
       /\ att[i].resp.status = StatusCreated /\ att[j].resp.status = StatusCreated
       /\ att[i].found.nil /\ ~att[i].findMissed
       /\ att[j].found.nil /\ ~att[j].findMissed
       /\ \E k, l \in DOMAIN users :
            /\ k # l /\ users[k].Email = att[i].req.Email /\ users[l].Email = att[i].req.Email
            /\ users[k].Id = att[i].userId /\ users[l].Id = att[j].userId

\* the latest step answered GET /users?company=... with a list
ListAnswered == lastGet.askedAll /\ lastGet.status = StatusOK /\ lastGet.kind = "users"

NoPasswords(list) == \A k \in DOMAIN list : list[k].Password = ""

\* C9 as claimed: no record of a listing by company carries a password,
\* whatever implementation of Database is behind the handler.
C9_NoPasswordAnyStore == ListAnswered => NoPasswords(lastGet.users)

\* C9: over the MongoDB implementation, whose FindAllUsers clears the
\* password of every record it returns, no record of a listing by company
\* carries a password.
C9_NoPasswordMongoDB ==
  (ListAnswered /\ DB = "MongoDB") => NoPasswords(lastGet.users)

\* a listing of a company whose stored document holds a password
C9_Witness ==
  /\ ListAnswered /\ DB = "MongoDB" /\ lastGet.users # << >>
  /\ \E k \in DOMAIN users :
       users[k].Company = lastGet.objId /\ users[k].Password # ""
                                        /\ users[k].Id = lastGet.users[1].Id

\* C10: the user of a 201 "success" answer carries, as its _id, the text of
\* the identifier DB.CreateUser returned to this attempt, and the name,
\* email, password and role of the request.
C10_AnswerEchoesRequestWithId ==
  \A i \in Attempts :
    (Done(i) /\ att[i].resp.status = StatusCreated) =>
      /\ att[i].resp.message = "success" /\ att[i].resp.kind = "user"
      /\ att[i].nCreate = 1 /\ ~att[i].createErr
      /\ ObjectIDFromHex(att[i].resp.user.Id) = [id |-> att[i].userId, err |-> FALSE]
      /\ att[i].resp.user.Name = att[i].req.Name
      /\ att[i].resp.user.Email = att[i].req.Email
      /\ att[i].resp.user.Password = att[i].req.Password
      /\ att[i].resp.user.Role = att[i].req.Role

\* the second user stored, answered with the second identifier
C10_Witness ==
  \E i \in Attempts :
    /\ DB = "MongoDB" /\ Done(i) /\ att[i].resp.status = StatusCreated
    /\ Len(users) > 1 /\ att[i].userId = users[Len(users)].Id
    /\ \E k \in DOMAIN users : users[k].Id = att[i].userId /\ users[k].Name = att[i].req.Name

C12_OnlySuccessAddsRecord ==
  [][ /\ \A i \in Attempts :
           (att[i].pc # "done" /\ att'[i].pc = "done"
              /\ att'[i].resp.status # StatusCreated) => users' = users
      /\ users' # users =>
           /\ Len(users') = Len(users) + 1
           /\ SubSeq(users', 1, Len(users)) = users
           /\ \E i \in Attempts :
                /\ att[i].pc # "done" /\ att'[i].pc = "done"
                /\ att'[i].resp.status = StatusCreated
                /\ users'[Len(users')].Id = att'[i].userId ]_vars

\* an attempt refused for its company and an attempt stored: one document
C12_Witness ==
  \E i, j \in Attempts :
    /\ DB = "MongoDB" /\ Done(i) /\ Done(j)
    /\ att[i].resp.message = "error on companyId as an object"
    /\ att[j].resp.status = StatusCreated
    /\ Len(users) = 1 /\ users[1].Id = att[j].userId

\* the company service failed attempt i: a transport error, a status other
\* than Created, or a body that holds no string id
ProvisionFailed(i) ==
  /\ att[i].nDo = 1
  /\ \/ att[i].doResp.doErr
     \/ ~att[i].doResp.created
     \/ ~(att[i].doResp.readable /\ att[i].doResp.json /\ att[i].doResp.id = "string")

\* C13 as claimed: when the call of the company service fails at transport
\* level, answers a status other than Created, or answers a body with no
\* string id, the attempt is answered 500 "company error", DB.CreateUser is
\* never called and the company of the request is not decoded instead.
C13_ProvisionFailureIsCompanyError ==
  \A i \in Attempts :
    (Founding(i) /\ ProvisionFailed(i)) =>
      /\ Done(i)
      /\ att[i].resp.status = StatusInternalServerError
      /\ att[i].resp.message = "company error"
      /\ att[i].nCreate = 0
      /\ att[i].companyIdObject = NilObjectID

\* the company service answers a status other than Created with an id in the
\* body, and the user is stored under that id and answered 201
C13_Witness ==
  \E i \in Attempts :
    /\ Founding(i) /\ Done(i) /\ ProvisionFailed(i) /\ ~att[i].doResp.created
    /\ att[i].doResp.id = "string"
    /\ att[i].resp.status = StatusCreated /\ att[i].nCreate = 1
    /\ \E k \in DOMAIN users : users[k].Id = att[i].userId

\* C14: an attempt whose DB.FindUserByEmail returned an error is not ended by
\* it: the company of the request is decoded next and, when it decodes, the
\* record is handed to DB.CreateUser; the only answers such an attempt gets
\* are those of the decoding and of the insert.
C14_LookupErrorIsNoConflict ==
  \A i \in Attempts :
    (att[i].nFind = 1 /\ att[i].findErr) =>
      /\ att[i].found.nil
      /\ IF Decodes(att[i].req.Company)
         THEN /\ att[i].pc = "create" \/ att[i].nCreate = 1
              /\ att[i].userWithCompany.Company = (ObjectIDFromHex(att[i].req.Company)).id
         ELSE /\ Done(i) /\ att[i].nCreate = 0
              /\ att[i].resp.message = "error on companyId as an object"
      /\ Done(i) => att[i].resp.status \in {StatusCreated, StatusInternalServerError}

\* the lookup of a stored email fails, no attempt overlapped another, and the
\* email is stored a second time
C14_Witness ==
  \E i \in Attempts :
    /\ DB = "MongoDB" /\ ~overlapped
    /\ Done(i) /\ att[i].findErr /\ att[i].findMissed
    /\ att[i].resp.status = StatusCreated
    /\ ~UniqueEmails

\* how far an attempt is: received, validated (at its lookup or at the
\* company service), resolved (at its insert), answered
Stage(a) ==
  CASE a.pc = "idle" -> 0
    [] a.pc = "find" -> 1
    [] a.pc = "company" -> 1
    [] a.pc = "create" -> 2
    [] a.pc = "done" -> 3

\* C15: every step of an attempt moves it to a later stage, an answered
\* attempt does nothing more, and an attempt calls DB.FindUserByEmail, the
\* company service and DB.CreateUser at most once each and is answered at
\* most once.
C15_ForwardOnly ==
  /\ [](\A i \in Attempts :
          /\ att[i].nFind <= 1 /\ att[i].nDo <= 1 /\ att[i].nCreate <= 1
          /\ att[i].answers <= 1
          /\ att[i].nCreate = 1 => att[i].nFind = 1
          /\ att[i].answers = 1 <=> att[i].pc = "done")
  /\ [][\A i \in Attempts :
          /\ att'[i] # att[i] => Stage(att'[i]) > Stage(att[i])
          /\ att[i].pc = "done" => att'[i] = att[i]]_vars

\* an attempt that went through every stage and one refused at validation
C15_Witness ==
  \E i, j \in Attempts :
    /\ Done(i) /\ att[i].nFind = 1 /\ att[i].nCreate = 1 /\ att[i].answers = 1
    /\ att[i].resp.status = StatusCreated
    /\ Done(j) /\ NoCalls(j) /\ att[j].answers = 1
    /\ att[j].resp.message = "validation error"

\* the latest step answered GET /users
UsersAnswered == lastGet.status # 0 /\ lastGet.userId = EmptyToken

\* C16: GET /users with a non-empty email parameter is answered by
\* DB.FindUserByEmail alone, whatever the company parameter: DB.FindAllUsers
\* is not called, the company is not decoded, and the answer is 200 or 500
\* according to the error of the lookup only.
C16_EmailTakesPriority ==
  (UsersAnswered /\ lastGet.email # "") =>
    /\ lastGet.askedByEmail /\ ~lastGet.askedAll /\ ~lastGet.askedById
    /\ ~lastGet.decodeErr /\ lastGet.objId = NilObjectID
    /\ lastGet.status = (IF lastGet.storeErr THEN StatusInternalServerError ELSE StatusOK)
    /\ lastGet.message # "Error getting user for a company, Company query parameter is missing"
    /\ lastGet.users = << >>

\* a stored email asked for with a company that does not decode: 200
C16_Witness ==
  /\ DB = "MongoDB" /\ UsersAnswered
  /\ lastGet.email # "" /\ lastGet.company = BadHex
  /\ lastGet.status = StatusOK /\ ~lastGet.user.nil
  /\ lastGet.user.rec.Email = lastGet.email

C18_NoStoreCallOnRejectedToken ==
  /\ \A t \in {BadHex, ShortHex, CompanyName, Undefined, EmptyToken} : ~Decodes(t)
  /\ \A i \in Attempts : att[i].nCreate > 0 => Decodes(att[i].req.Company)
  /\ (lastGet.askedAll \/ lastGet.askedById) => ~lastGet.decodeErr

\* GET /users?company=64dc over MongoDB: the token is rejected, the
\* collection is asked for the nil identifier, and the answer is 200
C18_Witness ==
  /\ DB = "MongoDB" /\ lastGet.askedAll /\ lastGet.decodeErr
  /\ lastGet.company = ShortHex /\ lastGet.objId = NilObjectID
  /\ lastGet.status = StatusOK /\ lastGet.users = << >>

\* the fields an error text names
Named(text) == { text[k] : k \in DOMAIN text }

\* C19: a request is answered "validation error" exactly when one of name,
\* password, email, role, company is empty; the error names every empty
\* field and no other; and the request is left as it was posted.
C19_ValidateReportsAllMissing ==
  \A i \in Attempts :
    Arrived(i) =>
      /\ (att[i].resp.message = "validation error") <=> MissingSome(att[i].req)
      /\ att[i].resp.message = "validation error" =>
           /\ att[i].resp.status = StatusBadRequest /\ att[i].resp.kind = "data"
           /\ ("Name" \in Named(att[i].resp.data)) <=> (att[i].req.Name = "")
           /\ ("Password" \in Named(att[i].resp.data)) <=> (att[i].req.Password = "")
           /\ ("Email" \in Named(att[i].resp.data)) <=> (att[i].req.Email = "")
           /\ ("Role" \in Named(att[i].resp.data)) <=> (att[i].req.Role = "")
           /\ ("Company" \in Named(att[i].resp.data)) <=> (att[i].req.Company = EmptyToken)
           /\ att[i].user = att[i].req
      /\ ~Done(i) => att[i].user = att[i].req

\* a request with two empty fields, both named in the answer
C19_Witness ==
  \E i \in Attempts :
    /\ Done(i) /\ att[i].bodyOk /\ att[i].resp.message = "validation error"
    /\ Cardinality(Named(att[i].resp.data)) = 2
    /\ att[i].req.Password = "" /\ att[i].req.Role = ""

\* the error texts a store call may return
StoreErrors == {ErrNoDocuments, ErrDriver, ErrMock}

\* the answer of a single-record lookup whose 500 carries the message msg
SingleAnswer(msg) ==
  IF lastGet.storeErr
  THEN /\ lastGet.status = StatusInternalServerError
       /\ lastGet.message = msg
       /\ lastGet.kind = "data" /\ lastGet.data \in StoreErrors
       /\ lastGet.user.nil
  ELSE /\ lastGet.status = StatusOK /\ lastGet.message = "success"
       /\ lastGet.kind = "user" /\ lastGet.data = << >>

\* C20: FindById and FindByEmail answer 200 "success" with what the store
\* returned exactly when the store call returned no error, and 500 with
\* their message and the text of the store's error otherwise; over MongoDB
\* a lookup that matches no document is such an error, and a 200 carries the
\* stored document that matches.
C20_SingleLookupAnswers ==
  /\ lastGet.askedById =>
       /\ SingleAnswer("Error getting a user from database")
       /\ DB = "MongoDB" =>
            /\ (\A k \in DOMAIN users : users[k].Id # lastGet.objId) => lastGet.storeErr
            /\ ~lastGet.storeErr =>
                 /\ ~lastGet.user.nil /\ lastGet.user.rec.Id = lastGet.objId
                 /\ \E k \in DOMAIN users : users[k] = lastGet.user.rec
  /\ lastGet.askedByEmail =>
       /\ SingleAnswer("Error getting a user from database with provided email")
       /\ DB = "MongoDB" =>
            /\ (\A k \in DOMAIN users : users[k].Email # lastGet.email) => lastGet.storeErr
            /\ ~lastGet.storeErr =>
                 /\ ~lastGet.user.nil /\ lastGet.user.rec.Email = lastGet.email
                 /\ \E k \in DOMAIN users : users[k] = lastGet.user.rec

\* the stored user looked up by its identifier: 200 with the document
C20_Witness ==
  /\ DB = "MongoDB" /\ lastGet.askedById /\ ~lastGet.decodeErr
  /\ lastGet.status = StatusOK /\ ~lastGet.user.nil
  /\ lastGet.userId = Hex(lastGet.user.rec.Id)
  /\ \E i \in Attempts : Done(i) /\ att[i].userId = lastGet.user.rec.Id

(***************************************************************************)
(* C21                                                                     *)
(***************************************************************************)
\* the collection after a step begins with the collection before it
Kept == Len(users') >= Len(users) /\ SubSeq(users', 1, Len(users)) = users

\* C21: a record once stored stays in the store with the same identifier and
\* the same fields: every step keeps the records there were, in place, and
\* a lookup (by id, by email, by company) changes nothing in the store
C21_StoredRecordsStay ==
  [][ /\ Kept
      /\ lastGet' # NoGet => users' = users /\ oidCounter' = oidCounter ]_vars

\* a second record was stored after the first, and a lookup by id has
\* answered with the first
C21_Witness ==
  /\ Len(users) = 2
  /\ lastGet.askedById /\ lastGet.status = StatusOK
  /\ lastGet.user.rec = users[1]

(***************************************************************************)
(* C22                                                                     *)
(***************************************************************************)
\* a single-record lookup answered 200 with a record
SingleFound ==
  /\ lastGet.askedById \/ lastGet.askedByEmail
  /\ lastGet.status = StatusOK /\ ~lastGet.user.nil

\* C22: FindById and FindByEmail answer with the record as the store holds
\* it, the password included: over MongoDB the answered record is a stored
\* document, field for field the record the registration passed to
\* DB.CreateUser under the identifier it was given, with the password of the
\* request; over the test double it is the record the double returned.
C22_LookupAnswersStoredRecord ==
  SingleFound =>
    LET r == lastGet.user.rec IN
    /\ lastGet.kind = "user"
    /\ r.Password # ""
    /\ IF DB = "MongoDB"
       THEN /\ \E k \in DOMAIN users : users[k] = r
            /\ \E i \in Attempts :
                 /\ Done(i) /\ att[i].userId = r.Id
                 /\ r = [att[i].userWithCompany EXCEPT !.Id = r.Id]
                 /\ r.Password = att[i].req.Password
                 /\ r.Name = att[i].req.Name /\ r.Email = att[i].req.Email
                 /\ r.Role = att[i].req.Role
       ELSE r \in MockRecords

\* the registered user looked up by email: 200 with the stored password
C22_Witness ==
  /\ DB = "MongoDB" /\ lastGet.askedByEmail /\ lastGet.status = StatusOK
  /\ ~lastGet.user.nil /\ lastGet.user.rec.Password = BaseUser.Password
  /\ Len(users) = 1 /\ users[1] = lastGet.user.rec

(***************************************************************************)
(* C23                                                                     *)
(***************************************************************************)
\* the body of attempt i was not JSON
Malformed(i) == att[i].pc # "idle" /\ ~att[i].bodyOk

\* C23: a POST /users whose body is not JSON is answered with the status
\* 400 and the attempt ends there: no validation answer, no call to the
\* store or to the company service, no record of its own.
C23_MalformedBodyStops ==
  \A i \in Attempts :
    Malformed(i) =>
      /\ Done(i)
      /\ att[i].resp.status = StatusBadRequest
      /\ att[i].resp.message # "validation error" /\ att[i].resp.data = << >>
      /\ NoCalls(i)
      /\ att[i].userId = NilObjectID /\ att[i].userWithCompany = ZeroUserWithCompany

\* a malformed body posted after a user was stored
C23_Witness ==
  /\ DB = "MongoDB" /\ Len(users) = 1
  /\ \E i \in Attempts : Malformed(i) /\ att[i].resp.status = StatusBadRequest

(***************************************************************************)
(* C24                                                                     *)
(***************************************************************************)
\* C24: when DB.FindAllUsers returns an error, GET /users?company=... is
\* answered 500 "There was a problem trying to find users on database" with
\* no data: no user, no list, not even the text of the error.
C24_ListingErrorIs500 ==
  (lastGet.askedAll /\ lastGet.storeErr) =>
    /\ lastGet.status = StatusInternalServerError
    /\ lastGet.message = "There was a problem trying to find users on database"
    /\ lastGet.kind = "nil"
    /\ lastGet.users = << >> /\ lastGet.user.nil /\ lastGet.data = << >>

\* the listing of a company that has a user failed at the store
C24_Witness ==
  /\ DB = "MongoDB" /\ lastGet.askedAll /\ lastGet.storeErr
  /\ lastGet.status = StatusInternalServerError
  /\ \E k \in DOMAIN users : users[k].Company = lastGet.objId

(***************************************************************************)
(* C25                                                                     *)
(***************************************************************************)
\* DB.CreateUser was called by attempt i and returned no error
Persisted(i) == att[i].nCreate = 1 /\ ~att[i].createErr

\* one answer per finished attempt, none before, and the status by cause:
\* 201 exactly for a DB.CreateUser that succeeded, 400 for a malformed body,
\* a validation failure or a found email, 500 for a company that does not
\* decode or a DB.CreateUser that failed
StatusByCause(i) ==
  LET a == att[i] IN
  /\ a.answers = (IF Done(i) THEN 1 ELSE 0)
  /\ Done(i) =>
       /\ a.resp.status \in {StatusCreated, StatusBadRequest, StatusInternalServerError}
       /\ a.resp.status = StatusCreated <=> Persisted(i)
       /\ a.resp.status = StatusCreated => a.resp.kind = "user"
       /\ a.resp.status = StatusBadRequest =>
            \/ Malformed(i)
            \/ Arrived(i) /\ MissingSome(a.req) /\ a.resp.message = "validation error"
            \/ Duplicate(i)
       /\ a.resp.status = StatusInternalServerError =>
            \/ /\ a.nFind = 1 /\ a.found.nil /\ ~Decodes(a.req.Company) /\ a.nCreate = 0
               /\ a.resp.message = "error on companyId as an object"
            \/ /\ a.nCreate = 1 /\ a.createErr
               /\ a.resp.message = "error storing user on database"

\* C25 as claimed: every finished attempt has exactly one answer, the user
\* with 201 or an error envelope with 400 or 500, with the status by cause.
C25_UserOrEnvelope ==
  \A i \in Attempts :
    /\ StatusByCause(i)
    /\ (Done(i) /\ att[i].resp.status # StatusCreated) => att[i].resp.kind = "data"

\* C25: every finished attempt has exactly one answer with the status by
\* cause: the user with 201, an error envelope with 400 or 500, or, for a
\* body that is not JSON, the status 400 with no envelope.
C25_UserEnvelopeOrBare ==
  \A i \in Attempts :
    /\ StatusByCause(i)
    /\ (Done(i) /\ att[i].resp.status # StatusCreated) =>
         IF Malformed(i) THEN att[i].resp.kind = "none" /\ att[i].resp.message = ""
         ELSE att[i].resp.kind = "data" /\ att[i].resp.message # ""

\* one attempt answered 201 and another answered 500 after its
\* DB.CreateUser failed
C25_Witness ==
  \E i, j \in Attempts :
    /\ Done(i) /\ att[i].resp.status = StatusCreated /\ Persisted(i)
    /\ Done(j) /\ att[j].resp.status = StatusInternalServerError /\ att[j].createErr

(***************************************************************************)
(* C26                                                                     *)
(***************************************************************************)
\* attempt i has assembled its record: name, email, password and role are
\* those of the request, the company is what the request's token decodes to
\* and what was resolved at line 65, and once DB.CreateUser has stored it
\* the document is that record under the new identifier
RecordAsResolved(i) ==
  LET a == att[i] IN
  a.pc = "create" \/ a.nCreate = 1 =>
    /\ a.userWithCompany.Name = a.req.Name
    /\ a.userWithCompany.Email = a.req.Email
    /\ a.userWithCompany.Password = a.req.Password
    /\ a.userWithCompany.Role = a.req.Role
    /\ a.userWithCompany.Company = a.companyIdObject
    /\ a.companyIdObject = (ObjectIDFromHex(a.req.Company)).id
    /\ Decodes(a.req.Company)
    /\ (DB = "MongoDB" /\ Persisted(i)) =>
         \E k \in DOMAIN users :
           users[k] = [a.userWithCompany EXCEPT !.Id = a.userId]

\* C26 as claimed: every record passed to DB.CreateUser has the name,
\* email, password and role of the request and the company resolved in the
\* same attempt, unchanged up to the write, and no stored record has the
\* zero company.
C26_ResolvedCompanyNeverZero ==
  /\ \A i \in Attempts : RecordAsResolved(i)
  /\ \A k \in DOMAIN users : users[k].Company # NilObjectID

\* a record was stored with the zero company
C26_Witness ==
  /\ DB = "MongoDB"
  /\ \E i \in Attempts :
       /\ Persisted(i) /\ att[i].req.Company = ZeroHex
       /\ \E k \in DOMAIN users :
            users[k].Id = att[i].userId /\ users[k].Company = NilObjectID

(***************************************************************************)
(* C27                                                                     *)
(***************************************************************************)
\* the requests that have arrived are complete and no two have one email
DistinctEmails ==
  \A i, j \in Attempts :
    (att[i].pc # "idle" /\ att[j].pc # "idle" /\ i # j) =>
      att[i].req.Email # att[j].req.Email

\* what the handler answers a complete request on its own, over a collection
\* that has no document with its email: by the company token and by what
\* its own DB.CreateUser returned
AloneAnswer(a) ==
  IF ~Decodes(a.req.Company)
  THEN ErrorAnswer(StatusInternalServerError, "error on companyId as an object",
                   ErrInvalidHex)
  ELSE IF a.createErr
  THEN ErrorAnswer(StatusInternalServerError, "error storing user on database", ErrDriver)
  ELSE UserAnswer(StatusCreated, "success", [a.req EXCEPT !.Id = Hex(a.userId)])

\* the documents with the email of attempt i
DocsOf(i) == SelectSeq(users, LAMBDA d : d.Email = att[i].req.Email)

\* C27: attempts with pairwise distinct emails do not interfere, however
\* their steps interleave: the lookup of each finds no record, each is
\* answered as it would be alone, and the collection holds for its email
\* exactly the record it would have stored alone (none if it failed).
C27_DistinctEmailsIndependent ==
  (DB = "MongoDB" /\ DistinctEmails) =>
    \A i \in Attempts :
      (Arrived(i) /\ ~MissingSome(att[i].req)) =>
        /\ att[i].nFind = 1 => att[i].found.nil /\ ~att[i].findMissed
        /\ Done(i) => att[i].resp = AloneAnswer(att[i])
        /\ DocsOf(i) =
             IF Persisted(i)
             THEN << [WithCompany(att[i].req, (ObjectIDFromHex(att[i].req.Company)).id)
                        EXCEPT !.Id = att[i].userId] >>
             ELSE << >>

\* two attempts with different emails ran at the same time and both were
\* answered 201
C27_Witness ==
  /\ DB = "MongoDB" /\ overlapped /\ DistinctEmails
  /\ \E i, j \in Attempts :
       /\ i # j /\ Persisted(i) /\ Persisted(j)
       /\ att[i].resp.status = StatusCreated /\ att[j].resp.status = StatusCreated
       /\ Len(DocsOf(i)) = 1 /\ Len(DocsOf(j)) = 1

(***************************************************************************)
(* C28                                                                     *)
(***************************************************************************)
\* what the lookup of attempt i used of the timeout
LookupSpent(i) == IF att[i].findTook > Timeout THEN Timeout ELSE att[i].findTook

\* C28 as claimed: each store call of an attempt has a timeout of its own,
\* so it is aborted exactly when it alone needs more than the timeout,
\* whatever the call before it needed, and an attempt with an aborted call
\* ends in failure.
C28_OwnTimeoutPerCall ==
  \A i \in Attempts :
    /\ att[i].nFind = 1 => (att[i].findAborted <=> att[i].findTook > Timeout)
    /\ att[i].nCreate = 1 => (att[i].createAborted <=> att[i].createTook > Timeout)
    /\ (Done(i) /\ (att[i].findAborted \/ att[i].createAborted)) =>
         att[i].resp.status = StatusInternalServerError

\* C28: the store calls of an attempt share the one timeout of its context:
\* the lookup is aborted exactly when it needs more than the timeout, the
\* insert exactly when the lookup and the insert together need more; an
\* aborted insert stores nothing and is answered 500 "error storing user on
\* database"; an aborted lookup counts as no record found, the insert is
\* still called, with no time left, and the attempt ends in that 500.
C28_SharedTimeout ==
  \A i \in Attempts :
    /\ att[i].elapsed <= Timeout
    /\ att[i].nFind = 1 =>
         /\ att[i].findAborted <=> att[i].findTook > Timeout
         /\ att[i].findAborted => att[i].found.nil /\ att[i].findErr
    /\ att[i].nCreate = 1 =>
         /\ att[i].createAborted <=> LookupSpent(i) + att[i].createTook > Timeout
         /\ att[i].findAborted => att[i].createAborted
         /\ att[i].createAborted =>
              /\ Done(i) /\ att[i].userId = NilObjectID
              /\ att[i].resp = ErrorAnswer(StatusInternalServerError,
                                           "error storing user on database", ErrDeadline)

\* a lookup and an insert that each needed less than the timeout, and the
\* insert was aborted
C28_Witness ==
  \E i \in Attempts :
    /\ att[i].nFind = 1 /\ att[i].findTook < Timeout /\ ~att[i].findAborted
    /\ att[i].nCreate = 1 /\ att[i].createTook < Timeout /\ att[i].createAborted
    /\ Done(i) /\ att[i].resp.status = StatusInternalServerError

(***************************************************************************)
(* C29                                                                     *)
(***************************************************************************)
\* the document d has the name, email and role attempt i registered and the
\* company its token decodes to, under the identifier the store gave it
Registered(i, d) ==
  /\ d.Id = att[i].userId
  /\ d.Name = att[i].req.Name /\ d.Email = att[i].req.Email
  /\ d.Role = att[i].req.Role
  /\ d.Company = (ObjectIDFromHex(att[i].req.Company)).id

ErrorBody(i) ==
  /\ att[i].nDo = 1 /\ ~att[i].doResp.doErr
  /\ att[i].doResp.readable /\ att[i].doResp.json /\ att[i].doResp.error

\* C30 as claimed: a body of the company service with an "error" field makes
\* CreateCompany return an error, with or without a string "message": the
\* attempt is answered with the envelope 500 "company error" and is never
\* ended by a panic.
C30_ErrorBodyReturnsError ==
  \A i \in Attempts :
    ErrorBody(i) =>
      /\ (CreateCompany(att[i].doResp)).err /\ ~(CreateCompany(att[i].doResp)).panic
      /\ Done(i) /\ att[i].nCreate = 0
      /\ att[i].resp.kind = "data"
      /\ att[i].resp.status = StatusInternalServerError
      /\ att[i].resp.message = "company error"

\* an error body without a string message: the attempt ended in a panic,
\* answered by the recovery with a bare 500
C30_Witness ==
  \E i \in Attempts :
    /\ ErrorBody(i) /\ att[i].doResp.message # "string"
    /\ (CreateCompany(att[i].doResp)).panic
    /\ Done(i) /\ att[i].resp = BareAnswer(StatusInternalServerError)
    /\ att[i].nCreate = 0

====
